---- MODULE Spec2Model ----
(***************************************************************************)
(* Geocoin Carrier (src/main.ts): the player, the path history, the coin   *)
(* inventory, the per-cell cache mementos, the caches rendered on the map, *)
(* geolocation tracking and the localStorage snapshot, as a state machine  *)
(* with one action per event handler.                                      *)
(*                                                                         *)
(* Latitudes and longitudes are fixed-point integers: one tile is Sub      *)
(* position units wide.  luck() values are hundredths, floored: the code   *)
(* uses luck only through  luck < 0.1  and  floor(luck * 100).             *)
(***************************************************************************)
EXTENDS Integers, Sequences, FiniteSets, TLC

\* ---------------------------------------------------------------- bounds
Sub == 2            \* position units per tile
MaxPath == 2        \* longest path history explored
MaxInv == 2         \* largest inventory explored
MaxPending == 1     \* getCurrentPosition requests in flight
MaxStep == 1        \* movement buttons are explored up to this many tiles
                    \* north of the home cell, and east of it in the walk
MaxWalk == 8        \* longest walk (movement buttons only) explored
WalkRows == 4       \* the walk is explored up to this many tiles north

\* ------------------------------------------------------------- constants
tileSize == Sub
gridSteps == 8
cacheSpawnRate == 10
HomeRow == 369894
HomeCol == -1220628
location == [lat |-> HomeRow * Sub + (Sub - 1), lng |-> HomeCol * Sub]

Directions == {"north", "south", "east", "west"}

\* the position the geolocation device reports, far outside the home viewport
FarRows == 20
GeoPoints == { [lat |-> location.lat + FarRows * tileSize, lng |-> location.lng] }

\* -------------------------------------------------------------- luck.ts
\* luck(key): deterministic, in [0,1); here in hundredths (0..99)
luck(i, j) ==
  IF <<i, j>> = <<HomeRow, HomeCol + 1>> THEN 2
  ELSE IF <<i, j>> = <<HomeRow + FarRows, HomeCol>> THEN 0
  ELSE 10 + ((i * 31 + j * 17) % 90)

\* luck of a key [i, j].toString()
luckOf(key) == luck(key[1], key[2])

\* the key createCache draws the coin count with
countKey(i, j) == <<i, j>>

\* the key refreshCaches draws the spawn decision with
spawnKey(cell) == <<cell.i, cell.j>>

\* ------------------------------------------------------------ boardClass
getCellPoint(point) ==
  [i |-> point.lat \div tileSize, j |-> point.lng \div tileSize]

\* [i, j].toString(), the key of knownCells
cellKey(i, j) == <<i, j>>

\* knownCells maps a key to the identity of the Cell object stored for it:
\* objects made for one key are numbered from 1, and a Cell's i and j are those
\* of the key it is stored under
FirstObj == 1

\* getRealCell that stores a new object on every lookup
getRealCellAlwaysSet(known, cell) ==
  [i |-> cell.i, j |-> cell.j,
   obj |-> IF cellKey(cell.i, cell.j) \in DOMAIN known
             THEN known[cellKey(cell.i, cell.j)] + 1 ELSE FirstObj]

\* getRealCell: the canonical cell returned, which is the stored object when
\* the key is known and the object {i, j} made and stored now otherwise
getRealCell(known, cell) ==
  [i |-> cell.i, j |-> cell.j,
   obj |-> IF cellKey(cell.i, cell.j) \in DOMAIN known
             THEN known[cellKey(cell.i, cell.j)] ELSE FirstObj]

\* knownCells after one getRealCell call: the key maps to the cell returned
knownAfter(known, cell) ==
  (cellKey(cell.i, cell.j) :> getRealCell(known, cell).obj) @@ known

\* The loop variable of getNearbyCells is a double: after k - 1 additions of
\* tileWidth (1e-4) to -radius (-8e-4) its IEEE-754 value is k - 1 - gridSteps
\* tiles plus loopExcess[k] units of 1e-20 degrees, and radius is gridSteps
\* tiles plus radiusExcess such units
loopExcess == <<-4, 1, 5, 10, 9, 8, 7, 8, 8, 9, 9, 8, 7, 12, 16, 21, 26>>
radiusExcess == 4

\* the loop test i <= radius before iteration k
loopRuns(k) ==
  \/ k - 1 - gridSteps < gridSteps
  \/ (k - 1 - gridSteps = gridSteps /\ loopExcess[k] <= radiusExcess)

\* iterations of each of the two nested loops: the loop stops at the first
\* test that fails
LoopLen ==
  Cardinality({k \in 1..(2 * gridSteps + 1) : \A n \in 1..k : loopRuns(n)})

\* the cells pushed by the two nested loops, outer (latitude) first
getNearbyCells(point) ==
  [k \in 1..(LoopLen * LoopLen) |->
     getCellPoint([lat |-> point.lat + (((k - 1) \div LoopLen) - gridSteps) * tileSize,
                   lng |-> point.lng + (((k - 1) % LoopLen) - gridSteps) * tileSize])]

\* the keys getRealCell is called with during one getNearbyCells call
keysOf(cells) == {cellKey(cells[n].i, cells[n].j) : n \in DOMAIN cells}

\* knownCells after getRealCell has been called once for each of the keys:
\* a key that is known keeps its object, any other gets the object made for it
internAll(known, keys) ==
  [k \in keys \ DOMAIN known |-> getRealCell(known, [i |-> k[1], j |-> k[2]]).obj] @@ known

\* ------------------------------------------------------------------ JSON
\* JSON.stringify(Coin[]): the fields of each coin, in order
stringifyCoins(tokens) ==
  [k \in 1..(3 * Len(tokens)) |->
     LET c == tokens[((k - 1) \div 3) + 1]
     IN  CASE (k - 1) % 3 = 0 -> c.i
           [] (k - 1) % 3 = 1 -> c.j
           [] OTHER -> c.serial]

\* JSON.parse of such a string
parseCoins(text) ==
  [k \in 1..(Len(text) \div 3) |->
     [i |-> text[3 * k - 2], j |-> text[3 * k - 1], serial |-> text[3 * k]]]

\* Array.prototype.splice(start, deleteCount, ...items), the array afterwards
splice(arr, start, deleteCount, items) ==
  SubSeq(arr, 1, start) \o items \o SubSeq(arr, start + deleteCount + 1, Len(arr))

\* ----------------------------------------------------------- createCache
\* createCache numbering the coins from 1
createCacheFromOne(i, j) ==
  [serial \in 1..luckOf(countKey(i, j)) |-> [i |-> i, j |-> j, serial |-> serial]]

createCache(i, j) ==
  [serial \in 1..luckOf(countKey(i, j)) |-> [i |-> i, j |-> j, serial |-> serial - 1]]

toMemento(tokens) == stringifyCoins(tokens)

\* fromMemento that inserts the parsed tokens without deleting the generated ones
fromMementoKeep(tokens, memento) ==
  splice(tokens, 0, 0, parseCoins(memento))

fromMemento(tokens, memento) ==
  splice(tokens, 0, Len(tokens), parseCoins(memento))

\* ------------------------------------------------- collect / deposit
\* both return the cache's tokens and the inventory afterwards
\* collectCoin taking the cache's last token (pop for shift)
collectCoinPop(cacheCoins, coins) ==
  IF Len(cacheCoins) > 0
    THEN [cache |-> SubSeq(cacheCoins, 1, Len(cacheCoins) - 1),
          coins |-> Append(coins, cacheCoins[Len(cacheCoins)])]
    ELSE [cache |-> cacheCoins, coins |-> coins]

\* collectCoin without the length test: shift() of an empty array gives
\* undefined, which is pushed
Undefined == [i |-> 0, j |-> 0, serial |-> -1]
collectCoinUnguarded(cacheCoins, coins) ==
  IF Len(cacheCoins) > 0
    THEN [cache |-> Tail(cacheCoins), coins |-> Append(coins, Head(cacheCoins))]
    ELSE [cache |-> cacheCoins, coins |-> Append(coins, Undefined)]

collectCoin(cacheCoins, coins) ==
  IF Len(cacheCoins) > 0
    THEN [cache |-> Tail(cacheCoins), coins |-> Append(coins, Head(cacheCoins))]
    ELSE [cache |-> cacheCoins, coins |-> coins]

\* depositCoin putting the coin at the cache's back (push for unshift)
depositCoinPush(cacheCoins, coins) ==
  IF Len(coins) > 0
    THEN [cache |-> Append(cacheCoins, coins[Len(coins)]),
          coins |-> SubSeq(coins, 1, Len(coins) - 1)]
    ELSE [cache |-> cacheCoins, coins |-> coins]

depositCoin(cacheCoins, coins) ==
  IF Len(coins) > 0
    THEN [cache |-> <<coins[Len(coins)]>> \o cacheCoins,
          coins |-> SubSeq(coins, 1, Len(coins) - 1)]
    ELSE [cache |-> cacheCoins, coins |-> coins]

\* ------------------------------------------- spawnCache / refreshCaches
cacheKey(i, j) == <<i, j>>

\* one spawnCache call: the rectangle added to the map and the new table
spawnCache(i, j, states) ==
  LET fresh == createCache(i, j)
      tokens == IF cacheKey(i, j) \in DOMAIN states
                  THEN fromMemento(fresh, states[cacheKey(i, j)])
                  ELSE fresh
  IN  [rect |-> [i |-> i, j |-> j, tokens |-> tokens],
       states |-> [k \in DOMAIN states \cup {cacheKey(i, j)} |->
                     IF k = cacheKey(i, j) THEN toMemento(tokens) ELSE states[k]]]

RECURSIVE spawnAll(_, _, _)
spawnAll(cells, rects, states) ==
  IF cells = <<>> THEN [rects |-> rects, states |-> states]
  ELSE LET s == spawnCache(Head(cells).i, Head(cells).j, states)
       IN  spawnAll(Tail(cells), Append(rects, s.rect), s.states)

spawnSelected(cell) == luckOf(spawnKey(cell)) < cacheSpawnRate

\* refreshCaches calling spawnCache for the player's own cell as well
selectedNearbyAndOwn(p) ==
  Append(SelectSeq(getNearbyCells(p), spawnSelected), getCellPoint(p))

\* the nearby cells the loop of refreshCaches calls spawnCache for, in order
selectedNearby(p) == SelectSeq(getNearbyCells(p), spawnSelected)

\* selectedNearby tabulated once for the positions the player can stand on
Positions ==
  { [lat |-> location.lat + di * tileSize, lng |-> location.lng + dj * tileSize] :
      di \in 0..WalkRows, dj \in 0..MaxStep } \cup GeoPoints
selectedNearbyTable == { <<p, selectedNearby(p)>> : p \in Positions }
nearbyKeysTable == { <<p, keysOf(getNearbyCells(p))>> : p \in Positions }

\* knownCells after refreshCaches has called getNearbyCells at p
internNearby(known, p) ==
  internAll(known, IF p \in Positions
                     THEN (CHOOSE t \in nearbyKeysTable : t[1] = p)[2]
                     ELSE keysOf(getNearbyCells(p)))

\* every rectangle is removed, then each selected nearby cell is spawned
refreshCaches(p, states) ==
  spawnAll(IF p \in Positions
             THEN (CHOOSE t \in selectedNearbyTable : t[1] = p)[2]
             ELSE selectedNearby(p),
           <<>>, states)

\* ----------------------------------------------------------- persistence
NoItem == [kind |-> "null"]            \* localStorage.getItem gives null
Garbage == [kind |-> "garbage"]        \* a string JSON.parse rejects

latLng(lat, lng) == [lat |-> lat, lng |-> lng]

\* the string saveGameState hands to localStorage.setItem
saveGameState(p, path, coins) ==
  [kind |-> "json",
   playerPosition |-> [lat |-> p.lat, lng |-> p.lng],
   path |-> [k \in 1..Len(path) |-> <<path[k].lat, path[k].lng>>],
   collectedCoins |-> stringifyCoins(coins)]

\* loadGameState reading each saved path entry as [lng, lat]
loadGameStateSwapped(item) ==
  LET fresh == [player |-> location, pathHistory |-> <<>>, playerCoins |-> <<>>,
                crashed |-> FALSE, refreshed |-> FALSE]
  IN  IF item.kind = "null" THEN fresh
      ELSE IF item.kind = "garbage"
             \/ {"playerPosition", "path", "collectedCoins"} \ DOMAIN item # {}
        THEN [fresh EXCEPT !.crashed = TRUE]
      ELSE [player |-> latLng(item.playerPosition.lat, item.playerPosition.lng),
            pathHistory |-> [k \in 1..Len(item.path) |->
                               latLng(item.path[k][2], item.path[k][1])],
            playerCoins |-> parseCoins(item.collectedCoins),
            crashed |-> FALSE, refreshed |-> TRUE]

\* loadGameState on a fresh page: the statements run until one throws
loadGameState(item) ==
  LET fresh == [player |-> location, pathHistory |-> <<>>, playerCoins |-> <<>>,
                crashed |-> FALSE, refreshed |-> FALSE]
  IN  CASE item.kind = "null" -> fresh
        [] item.kind = "garbage" -> [fresh EXCEPT !.crashed = TRUE]
        [] OTHER ->
           IF "playerPosition" \notin DOMAIN item
             THEN [fresh EXCEPT !.crashed = TRUE]
           ELSE LET s1 == [fresh EXCEPT !.player = latLng(item.playerPosition.lat,
                                                          item.playerPosition.lng)]
                IN  IF "path" \notin DOMAIN item
                      THEN [s1 EXCEPT !.crashed = TRUE]
                    ELSE LET s2 == [s1 EXCEPT !.pathHistory =
                                      [k \in 1..Len(item.path) |->
                                         latLng(item.path[k][1], item.path[k][2])]]
                         IN  IF "collectedCoins" \notin DOMAIN item
                               THEN [s2 EXCEPT !.crashed = TRUE]
                               ELSE [s2 EXCEPT !.playerCoins = parseCoins(item.collectedCoins),
                                               !.refreshed = TRUE]

\* what localStorage may hold when the page is first opened
SampleCoin == [i |-> HomeRow, j |-> HomeCol + 1, serial |-> 0]
SampleBlob == saveGameState(latLng(location.lat + tileSize, location.lng),
                            <<latLng(location.lat + tileSize, location.lng)>>,
                            <<SampleCoin>>)
InitStorage ==
  { NoItem, Garbage, SampleBlob,
    [kind |-> "json", path |-> SampleBlob.path,
     collectedCoins |-> SampleBlob.collectedCoins],
    [kind |-> "json", playerPosition |-> SampleBlob.playerPosition,
     collectedCoins |-> SampleBlob.collectedCoins],
    [kind |-> "json", playerPosition |-> SampleBlob.playerPosition,
     path |-> SampleBlob.path] }

\* ------------------------------------------------------------------ state
VARIABLES
  player,            \* Player.lat / Player.lng
  pathHistory,       \* sequence of LatLng
  playerCoins,       \* the inventory
  cacheStates,       \* cacheKey -> memento
  knownCells,        \* boardClass.knownCells: cellKey -> Cell
  live,              \* the rectangles on the map, each with its cache's tokens
  isTrackingActive,
  geoWatchId,        \* 0 stands for null
  watchActive,       \* the browser still holds the watch
  pendingShots,      \* getCurrentPosition callbacks not yet delivered
  geoSupported,      \* navigator.geolocation is present
  storage,           \* localStorage item "gameState"
  crashed,           \* the module's top-level code threw
  pressed,           \* history: the movement buttons pressed since the page
                     \* was opened, recorded by the walk specification only
  lastOp,            \* the handler that ran last
  pre                \* history of the last handler: the rectangle it acted on,
                     \* that cache's tokens and the inventory before it ran and,
                     \* for a deposit right after a collect on the same
                     \* rectangle, the tokens and inventory before that collect

vars == <<player, pathHistory, playerCoins, cacheStates, knownCells, live, isTrackingActive,
          geoWatchId, watchActive, pendingShots, geoSupported, storage, crashed,
          pressed, lastOp, pre>>

NoPre == [idx |-> 0, tokens |-> <<>>, coins |-> <<>>, prior |-> <<>>]

\* the page after its top-level code has run with `item` in localStorage
Boot(item) ==
  LET l == loadGameState(item)
      r == IF l.refreshed THEN refreshCaches(l.player, << >>)
                          ELSE [rects |-> <<>>, states |-> << >>]
  IN  /\ player' = l.player
      /\ pathHistory' = l.pathHistory
      /\ playerCoins' = l.playerCoins
      /\ crashed' = l.crashed
      /\ live' = r.rects
      /\ cacheStates' = r.states
      /\ knownCells' = IF l.refreshed THEN internNearby(<< >>, l.player) ELSE << >>
      /\ isTrackingActive' = FALSE
      /\ geoWatchId' = 0
      /\ watchActive' = FALSE
      /\ pendingShots' = 0
      /\ pressed' = <<>>
      /\ lastOp' = "load"
      /\ pre' = NoPre

Init ==
  /\ storage \in InitStorage
  /\ geoSupported \in BOOLEAN
  /\ LET l == loadGameState(storage)
         r == IF l.refreshed THEN refreshCaches(l.player, << >>)
                             ELSE [rects |-> <<>>, states |-> << >>]
     IN  /\ player = l.player
         /\ pathHistory = l.pathHistory
         /\ playerCoins = l.playerCoins
         /\ crashed = l.crashed
         /\ live = r.rects
         /\ cacheStates = r.states
         /\ knownCells = IF l.refreshed THEN internNearby(<< >>, l.player) ELSE << >>
  /\ isTrackingActive = FALSE
  /\ geoWatchId = 0
  /\ watchActive = FALSE
  /\ pendingShots = 0
  /\ pressed = <<>>
  /\ lastOp = "load"
  /\ pre = NoPre

\* the page is closed and opened again
Reload ==
  /\ Boot(storage)
  /\ UNCHANGED <<storage, geoSupported>>

\* ---------------------------------------------------------------- handlers
\* updatePlayerLocation: position, path history, snapshot
updatePlayerLocation(lat, lng) ==
  /\ player' = latLng(lat, lng)
  /\ pathHistory' = Append(pathHistory, latLng(lat, lng))
  /\ storage' = saveGameState(player', pathHistory', playerCoins)

\* Player.move whose south button adds the step
movedSouthAdds(p, direction) ==
  CASE direction = "north" -> latLng(p.lat + tileSize, p.lng)
    [] direction = "south" -> latLng(p.lat + tileSize, p.lng)
    [] direction = "east" -> latLng(p.lat, p.lng + tileSize)
    [] direction = "west" -> latLng(p.lat, p.lng - tileSize)

moved(p, direction) ==
  CASE direction = "north" -> latLng(p.lat + tileSize, p.lng)
    [] direction = "south" -> latLng(p.lat - tileSize, p.lng)
    [] direction = "east" -> latLng(p.lat, p.lng + tileSize)
    [] direction = "west" -> latLng(p.lat, p.lng - tileSize)

\* the part of the map the movement buttons are explored in: the home
\* column (knownCells remembers every viewport of the session, so each further
\* position multiplies the states); the walk covers both axes
InWorld(p) ==
  /\ getCellPoint(p).i \in HomeRow..(HomeRow + MaxStep)
  /\ getCellPoint(p).j = HomeCol

\* Player.move: the position, updatePlayerLocation, refreshCaches
PlayerMove(direction) ==
  /\ ~crashed
  /\ LET m == moved(player, direction)
         r == refreshCaches(m, cacheStates)
     IN  /\ updatePlayerLocation(m.lat, m.lng)
         /\ live' = r.rects
         /\ cacheStates' = r.states
         /\ knownCells' = internNearby(knownCells, m)
  /\ lastOp' = "move"
  /\ pre' = NoPre
  /\ UNCHANGED <<playerCoins, isTrackingActive, geoWatchId, watchActive,
                 pendingShots, geoSupported, crashed>>

\* Player.move, from a movement button
Move(direction) ==
  /\ Len(pathHistory) < MaxPath
  /\ InWorld(moved(player, direction))
  /\ PlayerMove(direction)
  /\ UNCHANGED pressed

\* the part of the map the walk is explored in: a lane north of the home cell
InLane(p) ==
  /\ getCellPoint(p).i \in HomeRow..(HomeRow + WalkRows)
  /\ getCellPoint(p).j \in HomeCol..(HomeCol + MaxStep)

\* Player.move, from a movement button, with the button recorded
WalkMove(direction) ==
  /\ Len(pressed) < MaxWalk
  /\ InLane(moved(player, direction))
  /\ PlayerMove(direction)
  /\ pressed' = Append(pressed, direction)

\* the callback handed to getCurrentPosition
GeoOneShot(pos) ==
  /\ ~crashed
  /\ pendingShots > 0
  /\ Len(pathHistory) < MaxPath
  /\ updatePlayerLocation(pos.lat, pos.lng)
  /\ pendingShots' = pendingShots - 1
  /\ lastOp' = "geoOneShot"
  /\ pre' = NoPre
  /\ UNCHANGED <<playerCoins, cacheStates, knownCells, live, isTrackingActive, geoWatchId,
                 watchActive, geoSupported, crashed, pressed>>

\* the callback handed to watchPosition; clearWatch ends its deliveries
GeoWatch(pos) ==
  /\ ~crashed
  /\ watchActive
  /\ Len(pathHistory) < MaxPath
  /\ updatePlayerLocation(pos.lat, pos.lng)
  /\ lastOp' = "geoWatch"
  /\ pre' = NoPre
  /\ UNCHANGED <<playerCoins, cacheStates, knownCells, live, isTrackingActive, geoWatchId,
                 watchActive, pendingShots, geoSupported, crashed, pressed>>

\* toggleTracking, from the geolocation button
toggleTracking ==
  /\ ~crashed
  /\ IF ~isTrackingActive
       THEN /\ isTrackingActive' = TRUE
            /\ IF geoSupported
                 THEN /\ pendingShots < MaxPending
                      /\ pendingShots' = pendingShots + 1
                      /\ geoWatchId' = 1
                      /\ watchActive' = TRUE
                 ELSE UNCHANGED <<pendingShots, geoWatchId, watchActive>>
            /\ lastOp' = "trackingOn"
       ELSE /\ isTrackingActive' = FALSE
            /\ watchActive' = IF geoWatchId # 0 THEN FALSE ELSE watchActive
            /\ lastOp' = "trackingOff"
            /\ UNCHANGED <<pendingShots, geoWatchId>>
  /\ pre' = NoPre
  /\ UNCHANGED <<player, pathHistory, playerCoins, cacheStates, knownCells, live,
                 geoSupported, storage, crashed, pressed>>

\* the collect button of the popup of rectangle k
Collect(k) ==
  /\ ~crashed
  /\ k \in 1..Len(live)
  /\ Len(live[k].tokens) > 0 => Len(playerCoins) < MaxInv
  /\ LET r == collectCoin(live[k].tokens, playerCoins)
     IN  /\ live' = [live EXCEPT ![k].tokens = r.cache]
         /\ playerCoins' = r.coins
  /\ lastOp' = "collect"
  /\ pre' = [idx |-> k, tokens |-> live[k].tokens, coins |-> playerCoins,
             prior |-> <<>>]
  /\ UNCHANGED <<player, pathHistory, cacheStates, knownCells, isTrackingActive, geoWatchId,
                 watchActive, pendingShots, geoSupported, storage, crashed, pressed>>

\* the deposit button of the popup of rectangle k
Deposit(k) ==
  /\ ~crashed
  /\ k \in 1..Len(live)
  /\ LET r == depositCoin(live[k].tokens, playerCoins)
     IN  /\ live' = [live EXCEPT ![k].tokens = r.cache]
         /\ playerCoins' = r.coins
  /\ lastOp' = "deposit"
  /\ pre' = [idx |-> k, tokens |-> live[k].tokens, coins |-> playerCoins,
             prior |-> IF lastOp = "collect" /\ pre.idx = k /\ pre.tokens # <<>>
                         THEN <<[tokens |-> pre.tokens, coins |-> pre.coins]>>
                         ELSE <<>>]
  /\ UNCHANGED <<player, pathHistory, cacheStates, knownCells, isTrackingActive, geoWatchId,
                 watchActive, pendingShots, geoSupported, storage, crashed, pressed>>

\* resetGameState that leaves the path history as it was
resetGameStateKeepPath(answer) ==
  /\ ~crashed
  /\ IF answer = "yes"
       THEN LET r == refreshCaches(location, cacheStates)
            IN  /\ playerCoins' = <<>>
                /\ pathHistory' = pathHistory
                /\ player' = location
                /\ live' = r.rects
                /\ cacheStates' = r.states
                /\ knownCells' = internNearby(knownCells, location)
                /\ storage' = saveGameState(player', pathHistory', playerCoins')
                /\ lastOp' = "reset"
       ELSE /\ lastOp' = "resetDeclined"
            /\ UNCHANGED <<playerCoins, pathHistory, player, live, cacheStates,
                           knownCells, storage>>
  /\ pre' = [NoPre EXCEPT !.coins = playerCoins]
  /\ UNCHANGED <<isTrackingActive, geoWatchId, watchActive, pendingShots,
                 geoSupported, crashed, pressed>>

\* resetGameState that also clears the table of saved cache states
resetGameStateClearTable(answer) ==
  /\ ~crashed
  /\ IF answer = "yes"
       THEN LET r == refreshCaches(location, cacheStates)
            IN  /\ playerCoins' = <<>>
                /\ pathHistory' = <<>>
                /\ player' = location
                /\ live' = r.rects
                /\ cacheStates' = << >>
                /\ knownCells' = internNearby(knownCells, location)
                /\ storage' = saveGameState(player', pathHistory', playerCoins')
                /\ lastOp' = "reset"
       ELSE /\ lastOp' = "resetDeclined"
            /\ UNCHANGED <<playerCoins, pathHistory, player, live, cacheStates,
                           knownCells, storage>>
  /\ pre' = [NoPre EXCEPT !.coins = playerCoins]
  /\ UNCHANGED <<isTrackingActive, geoWatchId, watchActive, pendingShots,
                 geoSupported, crashed, pressed>>

\* resetGameState, from the reset button; answer is what prompt() returned
resetGameState(answer) ==
  /\ ~crashed
  /\ IF answer = "yes"
       THEN LET r == refreshCaches(location, cacheStates)
            IN  /\ playerCoins' = <<>>
                /\ pathHistory' = <<>>
                /\ player' = location
                /\ live' = r.rects
                /\ cacheStates' = r.states
                /\ knownCells' = internNearby(knownCells, location)
                /\ storage' = saveGameState(player', pathHistory', playerCoins')
                /\ lastOp' = "reset"
       ELSE /\ lastOp' = "resetDeclined"
            /\ UNCHANGED <<playerCoins, pathHistory, player, live, cacheStates,
                           knownCells, storage>>
  /\ pre' = [NoPre EXCEPT !.coins = playerCoins]
  /\ UNCHANGED <<isTrackingActive, geoWatchId, watchActive, pendingShots,
                 geoSupported, crashed, pressed>>

PromptAnswers == {"yes", "no"}

Next ==
  \/ \E d \in Directions : Move(d)
  \/ \E pos \in GeoPoints : GeoOneShot(pos)
  \/ \E pos \in GeoPoints : GeoWatch(pos)
  \/ toggleTracking
  \/ \E k \in 1..Len(live) : Collect(k)
  \/ \E k \in 1..Len(live) : Deposit(k)
  \/ \E a \in PromptAnswers : resetGameState(a)
  \/ Reload

Spec == Init /\ [][Next]_vars

\* a fresh game (nothing saved) in which only the movement buttons are used
WalkInit == Init /\ storage = NoItem
WalkNext == \E d \in Directions : WalkMove(d)
WalkSpec == WalkInit /\ [][WalkNext]_vars

\* ================================================================ claims
\* the last handler was a collect or a deposit that moved a coin
Transferred ==
  \/ lastOp = "collect" /\ pre.tokens # <<>>
  \/ lastOp = "deposit" /\ pre.coins # <<>>

\* the rectangles of a cell among a sequence of rectangles
RectsOf(rects, i, j) == {k \in 1..Len(rects) : rects[k].i = i /\ rects[k].j = j}

\* a step of a handler that calls refreshCaches within the session
RefreshStep == lastOp' \in {"move", "reset"}

\* C1: after every successful collect or deposit on a cell's cache, the saved
\* state of that cell in cacheStates is the serialization of the cache's
\* current tokens.
C1_SavedStateFollowsTransfer ==
  Transferred =>
    LET c == live[pre.idx]
    IN  /\ cacheKey(c.i, c.j) \in DOMAIN cacheStates
        /\ cacheStates[cacheKey(c.i, c.j)] = toMemento(c.tokens)

\* C2: a cache is never regenerated: whenever a viewport refresh materializes
\* again a cell whose cache was on the map, the tokens are the ones the cache
\* had just before (those left by the last collect or deposit on it).
C2_NeverRegenerated ==
  [][RefreshStep =>
       \A k \in 1..Len(live) :
         \A m \in RectsOf(live', live[k].i, live[k].j) :
           live'[m].tokens = live[k].tokens]_vars

\* C3: a collect on a non-empty cache removes exactly the cache's first token
\* and puts it at the end of the inventory; a deposit with a non-empty
\* inventory removes exactly the inventory's last token and puts it at the
\* front of the cache; every other token keeps its place in order.
C3_TransferEnds ==
  LET c == live[pre.idx].tokens
  IN  /\ (lastOp = "collect" /\ pre.tokens # <<>>) =>
           /\ Len(c) = Len(pre.tokens) - 1
           /\ \A n \in 1..Len(c) : c[n] = pre.tokens[n + 1]
           /\ Len(playerCoins) = Len(pre.coins) + 1
           /\ \A n \in 1..Len(pre.coins) : playerCoins[n] = pre.coins[n]
           /\ playerCoins[Len(playerCoins)] = pre.tokens[1]
      /\ (lastOp = "deposit" /\ pre.coins # <<>>) =>
           /\ Len(playerCoins) = Len(pre.coins) - 1
           /\ \A n \in 1..Len(playerCoins) : playerCoins[n] = pre.coins[n]
           /\ Len(c) = Len(pre.tokens) + 1
           /\ c[1] = pre.coins[Len(pre.coins)]
           /\ \A n \in 1..Len(pre.tokens) : c[n + 1] = pre.tokens[n]

C3_Witness ==
  /\ lastOp = "collect"
  /\ Len(pre.tokens) >= 2
  /\ Len(pre.coins) >= 1
  /\ pre.tokens[1] # pre.tokens[2]

\* C4: a collect on a non-empty cache immediately followed by a deposit on
\* the same cache leaves the cache's tokens and the inventory exactly as they
\* were before the collect.
C4_CollectThenDepositRestores ==
  (lastOp = "deposit" /\ pre.prior # <<>>) =>
    /\ live[pre.idx].tokens = pre.prior[1].tokens
    /\ playerCoins = pre.prior[1].coins

C4_Witness ==
  /\ lastOp = "deposit"
  /\ pre.prior # <<>>
  /\ Len(pre.prior[1].tokens) >= 2
  /\ Len(pre.prior[1].coins) >= 1

\* C5: at the end of every handler that changes the position, the path
\* history or the inventory (movement, geolocation update, successful collect
\* or deposit), the persisted snapshot is that of the current position, path
\* history and inventory.
C5_SnapshotCurrent ==
  (lastOp \in {"move", "geoOneShot", "geoWatch"} \/ Transferred) =>
    storage = saveGameState(player, pathHistory, playerCoins)

\* C6: once tracking is off, a delivered position callback (one-shot or
\* watch) changes neither the player position, nor the path history, nor the
\* persisted snapshot.
C6_NoCallbackEffectWhenOff ==
  [][(~isTrackingActive /\ lastOp' \in {"geoOneShot", "geoWatch"}) =>
       UNCHANGED <<player, pathHistory, storage>>]_vars

\* the saved state of rectangle k's cell is the serialization of its tokens
InSync(k) ==
  /\ cacheKey(live[k].i, live[k].j) \in DOMAIN cacheStates
  /\ cacheStates[cacheKey(live[k].i, live[k].j)] = toMemento(live[k].tokens)

\* C7: materializing a cell's cache from its saved state, with no transfer
\* since that state was saved, gives the very tokens that were saved, in the
\* same order: a viewport refresh leaves the contents of such a cache as they
\* were.
C7_MementoRoundTrip ==
  [][RefreshStep =>
       \A k \in 1..Len(live) :
         InSync(k) =>
           \A m \in RectsOf(live', live[k].i, live[k].j) :
             live'[m].tokens = live[k].tokens]_vars

C7_Witness ==
  /\ lastOp = "move"
  /\ Len(pathHistory) >= 2
  /\ \E k \in 1..Len(live) :
       /\ Len(live[k].tokens) >= 2
       /\ live[k].tokens[1] # live[k].tokens[2]
       /\ InSync(k)

\* C8: loading, on a fresh page, a snapshot that was saved from the current
\* state gives back that position, that path history and that inventory,
\* entry by entry and in order.
C8_SaveLoadRoundTrip ==
  [][(lastOp' = "load" /\ storage = saveGameState(player, pathHistory, playerCoins)) =>
       /\ ~crashed'
       /\ player' = player
       /\ pathHistory' = pathHistory
       /\ playerCoins' = playerCoins]_vars

C8_Witness ==
  /\ lastOp = "load"
  /\ storage = saveGameState(player, pathHistory, playerCoins)
  /\ Len(pathHistory) >= 2
  /\ pathHistory[1] # pathHistory[2]
  /\ pathHistory[1].lat # pathHistory[1].lng
  /\ Len(playerCoins) >= 1

\* a stored item that is not a complete snapshot
Malformed(item) ==
  \/ item.kind = "garbage"
  \/ /\ item.kind = "json"
     /\ {"playerPosition", "path", "collectedCoins"} \ DOMAIN item # {}

\* C9: loading a malformed item does not crash and leaves the fresh-game
\* state: player at home, empty path history, empty inventory.
C9_MalformedFallsBack ==
  (lastOp = "load" /\ Malformed(storage)) =>
    /\ ~crashed
    /\ player = location
    /\ pathHistory = <<>>
    /\ playerCoins = <<>>

\* C10: a confirmed reset leaves the player at home with an empty path
\* history and an empty inventory, and the persisted snapshot holds exactly
\* that; a reset that is not confirmed changes nothing.
C10_Reset ==
  [][/\ lastOp' = "reset" =>
          /\ player' = location
          /\ pathHistory' = <<>>
          /\ playerCoins' = <<>>
          /\ storage'.kind = "json"
          /\ storage'.playerPosition = [lat |-> location.lat, lng |-> location.lng]
          /\ storage'.path = <<>>
          /\ storage'.collectedCoins = <<>>
     /\ lastOp' = "resetDeclined" =>
          UNCHANGED <<player, pathHistory, playerCoins, cacheStates, live,
                      isTrackingActive, geoWatchId, watchActive, pendingShots,
                      storage>>]_vars

C10_Witness ==
  /\ lastOp = "reset"
  /\ pre.coins # <<>>
  /\ storage = saveGameState(location, <<>>, <<>>)
  /\ cacheStates # << >>

\* the step a movement button stands for, in tiles: <<north, east>>
StepOf(direction) ==
  CASE direction = "north" -> <<1, 0>>
    [] direction = "south" -> <<-1, 0>>
    [] direction = "east" -> <<0, 1>>
    [] direction = "west" -> <<0, -1>>

FourNorthFourSouth ==
  <<"north", "north", "north", "north", "south", "south", "south", "south">>

\* C11: each movement command moves the player by exactly one tile width
\* along its own axis only and appends exactly one entry to the path history;
\* from a fresh start at home, n commands give a path history of length n,
\* and four norths then four souths end at the original latitude with path
\* length 8 and an empty inventory.
C11_Movement ==
  /\ [](/\ Len(pathHistory) = Len(pressed)
        /\ pressed = FourNorthFourSouth =>
             /\ player.lat = location.lat
             /\ Len(pathHistory) = 8
             /\ playerCoins = <<>>)
  /\ [][lastOp' = "move" =>
          LET d == StepOf(pressed'[Len(pressed')])
          IN  /\ player'.lat = player.lat + d[1] * tileSize
              /\ player'.lng = player.lng + d[2] * tileSize
              /\ Len(pathHistory') = Len(pathHistory) + 1
              /\ SubSeq(pathHistory', 1, Len(pathHistory)) = pathHistory
              /\ pathHistory'[Len(pathHistory')] = player']_vars

C11_Witness ==
  /\ pressed = FourNorthFourSouth
  /\ lastOp = "move"
  /\ pathHistory[4].lat = location.lat + 4 * tileSize

\* the last handler was a collect or a deposit that had nothing to move
NothingToMove ==
  \/ lastOp = "collect" /\ pre.tokens = <<>>
  \/ lastOp = "deposit" /\ pre.coins = <<>>

\* C12: a collect on an empty cache and a deposit with an empty inventory
\* are silent no-ops: nothing is thrown and the inventory, the caches'
\* tokens, the saved cache states and the persisted snapshot stay as they
\* were.
C12_EmptyTransferIsNoOp ==
  [][NothingToMove' =>
       /\ ~crashed'
       /\ UNCHANGED <<playerCoins, live, cacheStates, storage>>]_vars

C12_Witness ==
  /\ lastOp = "collect"
  /\ pre.tokens = <<>>
  /\ playerCoins # <<>>
  /\ storage.kind = "json"

\* ---------------------------------------------------------------- C13
\* the points sampled in and around the cell whose lower corner is base: the
\* lower edges, the interior, and the upper edges (which belong to the next cell)
SamplesAt(base) ==
  { [lat |-> base.lat + a, lng |-> base.lng + b] : a \in 0..Sub, b \in 0..Sub }

\* the lower corner of the player's cell, and of a cell no viewport reaches
SampleCorners ==
  { [lat |-> getCellPoint(player).i * tileSize, lng |-> getCellPoint(player).j * tileSize],
    [lat |-> (HomeRow - FarRows) * tileSize, lng |-> HomeCol * tileSize] }

\* a lookup of the corner followed by a lookup of each sampled point: the two
\* resolve to one object exactly when the point is in the corner's cell
SameHandle(base) ==
  LET first == getRealCell(knownCells, getCellPoint(base))
      table == knownAfter(knownCells, getCellPoint(base))
  IN  \A p \in SamplesAt(base) :
        (getCellPoint(p) = getCellPoint(base)) <=>
          (getRealCell(table, getCellPoint(p)) = first)

\* C13: two points that floor-divide to the same (row, column) resolve to the
\* identical Cell object, whatever lookups came before; the table holds one
\* Cell per (row, column), the first one made for it, and within a session no
\* entry of the table is ever removed or replaced
C13_CellsCanonical ==
  /\ [](knownCells = [k \in DOMAIN knownCells |-> FirstObj])
  /\ [](\A base \in SampleCorners : SameHandle(base))
  /\ [][lastOp' # "load" =>
          \/ knownCells' = knownCells
          \/ /\ DOMAIN knownCells \subseteq DOMAIN knownCells'
             /\ knownCells' = knownCells @@ knownCells']_vars

\* the viewport has been refreshed at two positions: the table holds the cells
\* of both and the player's cell is one of them
C13_Witness ==
  /\ lastOp = "move"
  /\ Cardinality(DOMAIN knownCells) > LoopLen * LoopLen
  /\ cellKey(getCellPoint(player).i, getCellPoint(player).j) \in DOMAIN knownCells

\* ---------------------------------------------------------------- C14
\* the cells (row + di, col + dj), di and dj in -gridSteps..gridSteps, around
\* the cell of the point
FullSquare(point) ==
  { [i |-> getCellPoint(point).i + di, j |-> getCellPoint(point).j + dj] :
      di \in (-gridSteps)..gridSteps, dj \in (-gridSteps)..gridSteps }

\* C14: getNearbyCells at the player's position returns the (2r+1)^2 cells of
\* the square around the player's cell, each exactly once
C14_NearbyIsFullSquare ==
  /\ Len(getNearbyCells(player)) = (2 * gridSteps + 1) * (2 * gridSteps + 1)
  /\ keysOf(getNearbyCells(player)) =
       { cellKey(c.i, c.j) : c \in FullSquare(player) }

\* what getNearbyCells returns instead: the rows and columns -gridSteps up to
\* gridSteps - 1 of the square, each cell once
C14_NearbyIsHalfOpenSquare ==
  /\ Len(getNearbyCells(player)) = (2 * gridSteps) * (2 * gridSteps)
  /\ keysOf(getNearbyCells(player)) =
       { cellKey(getCellPoint(player).i + di, getCellPoint(player).j + dj) :
           di \in (-gridSteps)..(gridSteps - 1), dj \in (-gridSteps)..(gridSteps - 1) }

\* ---------------------------------------------------------------- C15
\* the rectangle holds count coins of its own cell, with the serials 0, 1, ...,
\* count - 1 from front to back, count being the generator's value in
\* hundredths
FirstCoins(rect) ==
  /\ luck(rect.i, rect.j) \in 0..99
  /\ Len(rect.tokens) = luck(rect.i, rect.j)
  /\ \A n \in 1..Len(rect.tokens) :
        rect.tokens[n] = [i |-> rect.i, j |-> rect.j, serial |-> n - 1]

\* C15: the first materialization of a cell's cache, when the table has no
\* saved state for the cell, gives floor(luck * 100) coins, in 0..99, with the
\* serials 0..count-1 in order and the cell's own (row, column) as origin; the
\* table is empty when a session starts, so every cache materialized by the
\* load is a first one
C15_FirstMaterialization ==
  /\ [](lastOp = "load" => \A k \in 1..Len(live) : FirstCoins(live[k]))
  /\ [][RefreshStep =>
          \A m \in 1..Len(live') :
            cacheKey(live'[m].i, live'[m].j) \notin DOMAIN cacheStates =>
              FirstCoins(live'[m])]_vars

\* a session has just started and materialized a cache of two or more coins
C15_Witness ==
  /\ lastOp = "load"
  /\ \E k \in 1..Len(live) :
        /\ Len(live[k].tokens) >= 2
        /\ live[k].tokens[2].serial = 1

\* ---------------------------------------------------------------- C16
\* the cells of a sequence of rectangles
LiveCells(rects) == { cacheKey(rects[k].i, rects[k].j) : k \in 1..Len(rects) }

\* the spawn-selected cells within gridSteps cells of the point
Viewport(point) ==
  { cacheKey(c.i, c.j) : c \in { d \in FullSquare(point) : spawnSelected(d) } }

\* C16: after every change of the player's position (movement command,
\* geolocation update, load or reset) the cells with a live cache are exactly
\* the spawn-selected cells within the neighbourhood radius of the new position
C16_LiveIsViewport ==
  [][(~crashed' /\ player' # player) => LiveCells(live') = Viewport(player')]_vars

\* ---------------------------------------------------------------- C17
\* C17: for every spawned cell, the key the coin count is drawn with differs
\* from the key the spawn decision is drawn with, so that the count is not
\* fixed by the value that decided the spawn
C17_DistinctKeys ==
  \A k \in 1..Len(live) :
    countKey(live[k].i, live[k].j) # spawnKey([i |-> live[k].i, j |-> live[k].j])

\* ---------------------------------------------------------------- C18
\* C18: a cell that has an entry in cacheStates has one in every later state
\* of the session: no step other than the start of a new session removes an
\* entry
C18_EntriesStay ==
  [][lastOp' # "load" => DOMAIN cacheStates \subseteq DOMAIN cacheStates']_vars

\* the game was reset with entries in the table, and they are still there
C18_Witness ==
  /\ lastOp = "reset"
  /\ pre.coins # <<>>
  /\ DOMAIN cacheStates # {}

\* ---------------------------------------------------------------- C19
\* C19: every cell with a live cache or an entry in cacheStates is a cell whose
\* spawn decision is true
C19_OnlySelectedCells ==
  /\ \A k \in 1..Len(live) : spawnSelected([i |-> live[k].i, j |-> live[k].j])
  /\ \A key \in DOMAIN cacheStates : spawnSelected([i |-> key[1], j |-> key[2]])

\* a move has refreshed a viewport in which the player's own cell is not
\* selected while another cell is, and has a cache and an entry
C19_Witness ==
  /\ lastOp = "move"
  /\ ~spawnSelected(getCellPoint(player))
  /\ live # <<>>
  /\ DOMAIN cacheStates # {}

\* ---------------------------------------------------------------- C20
\* no coin occurs twice in the sequence
Distinct(coins) ==
  \A m, n \in 1..Len(coins) : coins[m] = coins[n] => m = n

\* the two sequences have no coin in common
Disjoint(a, b) ==
  \A m \in 1..Len(a) : \A n \in 1..Len(b) : a[m] # b[n]

\* each coin (origin row, origin column, serial) occurs at most once across
\* the inventory and the tokens of all live caches
NoCoinTwice ==
  /\ Distinct(playerCoins)
  /\ \A k \in 1..Len(live) :
        /\ Distinct(live[k].tokens)
        /\ Disjoint(playerCoins, live[k].tokens)
        /\ \A m \in 1..Len(live) : m # k => Disjoint(live[m].tokens, live[k].tokens)

\* C20: within a session no coin is ever duplicated: no move, refresh,
\* collect, deposit or other step of the session leads from a state where
\* each coin occurs at most once to a state where a coin occurs twice
C20_NoCoinDuplicated ==
  [][(lastOp' # "load" /\ NoCoinTwice) => NoCoinTwice']_vars

====
